---- MODULE Spec2Model ----
(***************************************************************************)
(* A model of the Django-In-Production exercises: the Blog REST views of   *)
(* 02_serializing_data_with_drf (serializer validation, create, update),   *)
(* the validation hooks of 04_authentication_and_authorizations, the       *)
(* relations declared in blog/models.py and the blog_count command of      *)
(* 03_django_admin.                                                        *)
(*                                                                         *)
(* A string is a sequence of one-character strings, so that trimming,      *)
(* membership of a character and counting letters are computed.            *)
(* A time is an integer number of ticks.                                   *)
(***************************************************************************)
EXTENDS Integers, Sequences, FiniteSets, TLC

VARIABLES blogs, authors, tagsTbl, covers, nextId, nextRel, now, last, cmd,
          users, mgr, req

vars ==
    <<blogs, authors, tagsTbl, covers, nextId, nextRel, now, last, cmd, users, mgr,
      req>>

\* The Author, Tags and CoverImage tables with their key counters.
relVars == <<authors, tagsTbl, covers, nextRel>>

\* The user table and the latest call of its manager.
authVars == <<users, mgr>>

(***************************************************************************)
(* Bounds of the model.                                                    *)
(***************************************************************************)
MaxBlogs == 2
MaxClock == 1

(***************************************************************************)
(* Strings.                                                                *)
(***************************************************************************)
Space == " "

IsSpace(ch) == ch = Space

RECURSIVE LStrip(_)
LStrip(s) == IF s # <<>> /\ IsSpace(Head(s)) THEN LStrip(Tail(s)) ELSE s

RECURSIVE RStrip(_)
RStrip(s) ==
    IF s # <<>> /\ IsSpace(s[Len(s)]) THEN RStrip(SubSeq(s, 1, Len(s) - 1)) ELSE s

\* str.strip(), applied by a CharField with trim_whitespace (the default).
Strip(s) == RStrip(LStrip(s))

Contains(s, ch) == \E i \in 1..Len(s) : s[i] = ch

Range(s) == {s[i] : i \in 1..Len(s)}

RECURSIVE SortedSeq(_)
SortedSeq(S) ==
    IF S = {} THEN <<>>
    ELSE LET m == CHOOSE x \in S : \A y \in S : x <= y
         IN  <<m>> \o SortedSeq(S \ {m})

(***************************************************************************)
(* blog/models.py: the stored records.  blogs maps a primary key to a Blog *)
(* row; authors and tagsTbl map primary keys to Author and Tags rows;      *)
(* covers is the set of stored CoverImage primary keys.                    *)
(***************************************************************************)
Fields == {"title", "content", "author", "tags", "blog_cover_image"}

TitleMaxLength == 100

StoredIds == DOMAIN blogs

\* Blog.objects.get(pk=pk) raises Blog.DoesNotExist when no row matches.
DoesNotExist(pk) == pk \notin StoredIds

(***************************************************************************)
(* Request payloads (request.data): keys is the set of keys present; an    *)
(* absent key holds a placeholder that is never read.                      *)
(***************************************************************************)
Payload(D, t, c, a, tg, ci) ==
    [keys |-> D,
     title |-> IF "title" \in D THEN t ELSE <<>>,
     content |-> IF "content" \in D THEN c ELSE <<>>,
     author |-> IF "author" \in D THEN a ELSE 0,
     tags |-> IF "tags" \in D THEN tg ELSE <<>>,
     blog_cover_image |-> IF "blog_cover_image" \in D THEN ci ELSE 0]

EmptyPayload == Payload({}, <<>>, <<>>, 0, <<>>, 0)

(***************************************************************************)
(* BlogSerializer: a ModelSerializer over every field of Blog.  The fields *)
(* it builds from the model declarations: title and content are CharFields *)
(* (trimmed, not blank), title carries max_length and a UniqueValidator,   *)
(* author and blog_cover_image are PrimaryKeyRelatedFields over the stored *)
(* rows, blog_cover_image (one-to-one) carries a UniqueValidator, tags is  *)
(* a non-empty list of stored Tags keys.  id, created_at and updated_at    *)
(* are read-only.  In partial mode an absent key is skipped.               *)
(***************************************************************************)
NoInstance == 0

OK == ""

CharError(p, f, partial) ==
    IF f \notin p.keys THEN (IF partial THEN OK ELSE "required")
    ELSE IF Strip(p[f]) = <<>> THEN "blank"
    ELSE OK

\* Mutant of UniqueTitleError: the title field has no UniqueValidator.
UniqueTitleError_None(p, instance) == OK

UniqueTitleError(p, instance) ==
    IF \E i \in StoredIds : i # instance /\ blogs[i].title = Strip(p.title)
    THEN "unique" ELSE OK

TitleError(p, partial, instance) ==
    IF CharError(p, "title", partial) # OK THEN CharError(p, "title", partial)
    ELSE IF "title" \notin p.keys THEN OK
    ELSE IF Len(Strip(p.title)) > TitleMaxLength THEN "max_length"
    ELSE UniqueTitleError(p, instance)

AuthorError(p, partial) ==
    IF "author" \notin p.keys THEN (IF partial THEN OK ELSE "required")
    ELSE IF p.author \notin DOMAIN authors THEN "does_not_exist"
    ELSE OK

TagsError(p, partial) ==
    IF "tags" \notin p.keys THEN (IF partial THEN OK ELSE "required")
    ELSE IF p.tags = <<>> THEN "empty"
    ELSE IF \E t \in Range(p.tags) : t \notin DOMAIN tagsTbl THEN "does_not_exist"
    ELSE OK

CoverError(p, partial, instance) ==
    IF "blog_cover_image" \notin p.keys THEN (IF partial THEN OK ELSE "required")
    ELSE IF p.blog_cover_image \notin covers THEN "does_not_exist"
    ELSE IF \E i \in StoredIds :
               i # instance /\ blogs[i].blog_cover_image = p.blog_cover_image
         THEN "unique"
    ELSE OK

\* serializer.errors after is_valid(): every field's error is collected.
BlogSerializerErrors(p, partial, instance) ==
    [title |-> TitleError(p, partial, instance),
     content |-> CharError(p, "content", partial),
     author |-> AuthorError(p, partial),
     tags |-> TagsError(p, partial),
     blog_cover_image |-> CoverError(p, partial, instance)]

NoErrors == [f \in Fields |-> OK]

\* serializer.is_valid()
IsValid(errs) == errs = NoErrors

\* Mutant of ToInternalValue: the character fields are stored as submitted.
ToInternalValue_Raw(p, f) ==
    CASE f = "title" -> p.title
      [] f = "content" -> p.content
      [] f = "author" -> p.author
      [] f = "tags" -> Range(p.tags)
      [] f = "blog_cover_image" -> p.blog_cover_image

\* to_internal_value: the value each present key is converted to.
ToInternalValue(p, f) ==
    CASE f = "title" -> Strip(p.title)
      [] f = "content" -> Strip(p.content)
      [] f = "author" -> p.author
      [] f = "tags" -> Range(p.tags)
      [] f = "blog_cover_image" -> p.blog_cover_image

\* ModelSerializer.create: Blog.objects.create(**validated_data), tags.set(...);
\* auto_now_add and auto_now stamp both times.
SerializerCreate(p) ==
    [title |-> ToInternalValue(p, "title"),
     content |-> ToInternalValue(p, "content"),
     author |-> ToInternalValue(p, "author"),
     tags |-> ToInternalValue(p, "tags"),
     blog_cover_image |-> ToInternalValue(p, "blog_cover_image"),
     created_at |-> now,
     updated_at |-> now]

\* auto_now=True: every Model.save() sets updated_at to the current time.
AutoNow(old) == now

\* Mutant of SerializerUpdate: a key absent from the data is reset, as a full
\* update would.
SerializerUpdate_ResetsAbsent(b, p) ==
    [title |-> IF "title" \in p.keys THEN ToInternalValue(p, "title") ELSE b.title,
     content |-> IF "content" \in p.keys THEN ToInternalValue(p, "content")
                 ELSE <<>>,
     author |-> IF "author" \in p.keys THEN ToInternalValue(p, "author") ELSE b.author,
     tags |-> IF "tags" \in p.keys THEN ToInternalValue(p, "tags") ELSE {},
     blog_cover_image |-> IF "blog_cover_image" \in p.keys
                          THEN ToInternalValue(p, "blog_cover_image")
                          ELSE b.blog_cover_image,
     created_at |-> b.created_at,
     updated_at |-> AutoNow(b.updated_at)]

\* ModelSerializer.update: setattr for every validated key, instance.save().
SerializerUpdate(b, p) ==
    [title |-> IF "title" \in p.keys THEN ToInternalValue(p, "title") ELSE b.title,
     content |-> IF "content" \in p.keys THEN ToInternalValue(p, "content")
                 ELSE b.content,
     author |-> IF "author" \in p.keys THEN ToInternalValue(p, "author") ELSE b.author,
     tags |-> IF "tags" \in p.keys THEN ToInternalValue(p, "tags") ELSE b.tags,
     blog_cover_image |-> IF "blog_cover_image" \in p.keys
                          THEN ToInternalValue(p, "blog_cover_image")
                          ELSE b.blog_cover_image,
     created_at |-> b.created_at,
     updated_at |-> AutoNow(b.updated_at)]

\* serializer.data of an instance: to_representation.
ToRepresentation(pk, b) ==
    [id |-> pk, title |-> b.title, content |-> b.content, author |-> b.author,
     tags |-> SortedSeq(b.tags), blog_cover_image |-> b.blog_cover_image,
     created_at |-> b.created_at, updated_at |-> b.updated_at]

NoRepr ==
    [id |-> 0, title |-> <<>>, content |-> <<>>, author |-> 0, tags |-> <<>>,
     blog_cover_image |-> 0, created_at |-> 0, updated_at |-> 0]

(***************************************************************************)
(* Responses.  last records the latest request and its response: the view  *)
(* (op), the pk of the URL, request.data, the status, the "error" body of  *)
(* a 404, serializer.errors, the representation returned, and whether      *)
(* is_valid() and save() were called.                                      *)
(***************************************************************************)
Response(op, pk, p, status, error, errs, repr, validated, saved) ==
    [op |-> op, pk |-> pk, data |-> p, status |-> status, error |-> error,
     errors |-> errs, repr |-> repr, validated |-> validated, saved |-> saved]

NotFound(op, pk, p) ==
    Response(op, pk, p, 404, "Blog not found", NoErrors, NoRepr, FALSE, FALSE)

\* Mutant of CreateFlow: save() is called without asking is_valid().
CreateFlow_SaveUnchecked(op, p) ==
    LET errs == BlogSerializerErrors(p, FALSE, NoInstance)
        b == SerializerCreate(p)
    IN  /\ nextId <= MaxBlogs
        /\ blogs' = blogs @@ (nextId :> b)
        /\ nextId' = nextId + 1
        /\ last' = Response(op, 0, p, 201, "", errs,
                            ToRepresentation(nextId, b), FALSE, TRUE)

\* The create flow shared by BlogGetCreateView.post and BlogGetUpdateView.post.
CreateFlow(op, p) ==
    LET errs == BlogSerializerErrors(p, FALSE, NoInstance)
        b == SerializerCreate(p)
    IN  IF IsValid(errs)
        THEN /\ nextId <= MaxBlogs
             /\ blogs' = blogs @@ (nextId :> b)
             /\ nextId' = nextId + 1
             /\ last' = Response(op, 0, p, 201, "", errs,
                                 ToRepresentation(nextId, b), TRUE, TRUE)
        ELSE /\ last' = Response(op, 0, p, 400, "", errs, NoRepr, TRUE, FALSE)
             /\ UNCHANGED <<blogs, nextId>>

\* Mutant of UpdateFlow: Blog.DoesNotExist is not caught.
UpdateFlow_Uncaught(op, pk, p, partial) ==
    IF DoesNotExist(pk)
    THEN /\ last' = Response(op, pk, p, 500, "DoesNotExist", NoErrors, NoRepr,
                             FALSE, FALSE)
         /\ UNCHANGED blogs
    ELSE LET errs == BlogSerializerErrors(p, partial, pk)
             b == SerializerUpdate(blogs[pk], p)
         IN  IF IsValid(errs)
             THEN /\ blogs' = [blogs EXCEPT ![pk] = b]
                  /\ last' = Response(op, pk, p, 200, "", errs,
                                      ToRepresentation(pk, b), TRUE, TRUE)
             ELSE /\ last' = Response(op, pk, p, 400, "", errs, NoRepr, TRUE, FALSE)
                  /\ UNCHANGED blogs

\* The update flow shared by BlogDetailView.put (partial = FALSE) and
\* BlogDetailView.patch (partial = TRUE).
UpdateFlow(op, pk, p, partial) ==
    IF DoesNotExist(pk)
    THEN /\ last' = NotFound(op, pk, p)
         /\ UNCHANGED blogs
    ELSE LET errs == BlogSerializerErrors(p, partial, pk)
             b == SerializerUpdate(blogs[pk], p)
         IN  IF IsValid(errs)
             THEN /\ blogs' = [blogs EXCEPT ![pk] = b]
                  /\ last' = Response(op, pk, p, 200, "", errs,
                                      ToRepresentation(pk, b), TRUE, TRUE)
             ELSE /\ last' = Response(op, pk, p, 400, "", errs, NoRepr, TRUE, FALSE)
                  /\ UNCHANGED blogs

\* The response of BlogDetailView.get in the current state.
DetailGetResponse(pk) ==
    IF DoesNotExist(pk)
    THEN NotFound("get", pk, EmptyPayload)
    ELSE Response("get", pk, EmptyPayload, 200, "", NoErrors,
                  ToRepresentation(pk, blogs[pk]), FALSE, FALSE)

BlogGetCreateView_post(p) ==
    /\ CreateFlow("post", p)
    /\ UNCHANGED <<relVars, now, cmd, authVars, req>>

BlogGetUpdateView_post(p) ==
    /\ CreateFlow("custom_post", p)
    /\ UNCHANGED <<relVars, now, cmd, authVars, req>>

BlogDetailView_get(pk) ==
    /\ last' = DetailGetResponse(pk)
    /\ UNCHANGED <<blogs, relVars, nextId, now, cmd, authVars, req>>

BlogDetailView_put(pk, p) ==
    /\ UpdateFlow("put", pk, p, FALSE)
    /\ UNCHANGED <<relVars, nextId, now, cmd, authVars, req>>

BlogDetailView_patch(pk, p) ==
    /\ UpdateFlow("patch", pk, p, TRUE)
    /\ UNCHANGED <<relVars, nextId, now, cmd, authVars, req>>

\* Time passes between requests.
Tick ==
    /\ now < MaxClock
    /\ now' = now + 1
    /\ UNCHANGED <<blogs, relVars, nextId, last, cmd, authVars, req>>

(***************************************************************************)
(* The inputs of the REST specification.                                   *)
(***************************************************************************)
TitleInputs == {<<"a">>, <<"b">>, <<" ", "a">>, <<>>}
ContentInputs == {<<"a">>, <<"b", " ">>}
TagsInputs == {<<1>>, <<2, 1, 2>>}
CoverInputs == {1, 2}
PkInputs == 1..MaxBlogs

\* Payloads naming every key, the relations naming stored rows.
FullPayloads ==
    {Payload(Fields, t, c, 1, tg, ci) :
        t \in TitleInputs, c \in ContentInputs, tg \in TagsInputs, ci \in CoverInputs}

\* Payloads with a relation that names no stored row, an empty tag list or
\* a missing key.
BadPayloads ==
    {Payload(Fields, <<"a">>, <<"a">>, 2, <<1>>, 1),
     Payload(Fields, <<"a">>, <<"a">>, 1, <<>>, 1),
     Payload(Fields, <<"a">>, <<"a">>, 1, <<1, 3>>, 1),
     Payload(Fields, <<"a">>, <<"a">>, 1, <<1>>, 3),
     Payload(Fields \ {"content"}, <<"a">>, <<>>, 1, <<1>>, 1),
     EmptyPayload}

\* Payloads naming exactly one key.
OneKeyPayloads ==
    {Payload({"title"}, t, <<>>, 0, <<>>, 0) : t \in TitleInputs}
    \cup {Payload({"content"}, <<>>, c, 0, <<>>, 0) : c \in ContentInputs}
    \cup {Payload({"author"}, <<>>, <<>>, a, <<>>, 0) : a \in {1, 2}}
    \cup {Payload({"tags"}, <<>>, <<>>, 0, tg, 0) : tg \in TagsInputs \cup {<<>>}}
    \cup {Payload({"blog_cover_image"}, <<>>, <<>>, 0, <<>>, ci) : ci \in CoverInputs}

\* Payloads of a PUT: the second content, any title, any cover; one has no content.
PutPayloads ==
    {Payload(Fields, t, <<"b", " ">>, 1, <<1>>, ci) :
        t \in TitleInputs, ci \in CoverInputs}
    \cup {Payload(Fields \ {"content"}, <<"a">>, <<>>, 1, <<1>>, 1)}

\* Payloads of the second create view.
CustomPostPayloads ==
    {Payload(Fields, <<"b">>, <<"b">>, 1, <<1>>, 2),
     Payload(Fields, <<"b">>, <<>>, 1, <<1>>, 2)}

InitStore ==
    /\ blogs = <<>>
    /\ authors = (1 :> [email |-> "x@example.com"])
    /\ tagsTbl = (1 :> [name |-> "django"] @@ 2 :> [name |-> "drf"])
    /\ covers = {1, 2}
    /\ nextId = 1
    /\ nextRel = [author |-> 2, tag |-> 3, cover |-> 3]
    /\ now = 0

NoRequest ==
    Response("none", 0, EmptyPayload, 0, "", NoErrors, NoRepr, FALSE, FALSE)

\* The blog_count command has not been invoked.
NoFault == [at |-> "never", kind |-> ""]

NoArgs ==
    [min_letters |-> 0, verbose |-> FALSE, start_date |-> "", end_date |-> "",
     fault |-> NoFault]

CmdIdle ==
    [pc |-> "idle", args |-> NoArgs, out |-> <<>>, raised |-> "", escaped |-> FALSE,
     total |-> 0]

\* Python's None, where a phone number, a password or a flag may be None.
None == "None"

\* No user: what a manager call that raises returns.
NoUser ==
    [phone_no |-> None, password |-> <<>>, is_staff |-> None, is_superuser |-> None,
     is_active |-> None]

\* The manager of CustomUser has not been called.
NoCall ==
    [op |-> "none", phone_no |-> None, password |-> None, extra_fields |-> <<>>,
     raised |-> "", user |-> NoUser]

\* The user table is empty.
InitAuth ==
    /\ users = <<>>
    /\ mgr = NoCall

\* No request has reached the views of demo_app.
NoExchange ==
    [pc |-> "idle", view |-> "", method |-> "", version |-> None, status |-> 0,
     message |-> <<>>, handled |-> FALSE]

InitDemo == req = NoExchange

Init ==
    /\ InitStore
    /\ last = NoRequest
    /\ cmd = CmdIdle
    /\ InitAuth
    /\ InitDemo

Next ==
    \/ \E p \in FullPayloads \cup BadPayloads : BlogGetCreateView_post(p)
    \/ \E p \in CustomPostPayloads : BlogGetUpdateView_post(p)
    \/ \E pk \in PkInputs : BlogDetailView_get(pk)
    \/ \E pk \in PkInputs, p \in PutPayloads : BlogDetailView_put(pk, p)
    \/ \E pk \in PkInputs, p \in OneKeyPayloads \cup {EmptyPayload} :
            BlogDetailView_patch(pk, p)

\* The REST views at a fixed clock.
Spec == Init /\ [][Next]_vars

(***************************************************************************)
(* The REST views with time passing between requests: two creations and    *)
(* every one-key PATCH.                                                    *)
(***************************************************************************)
ClockPostPayloads ==
    {Payload(Fields, <<"a">>, <<"a">>, 1, <<1>>, 1),
     Payload(Fields, <<"b">>, <<"b", " ">>, 1, <<2, 1, 2>>, 2)}

NextClock ==
    \/ \E p \in ClockPostPayloads : BlogGetCreateView_post(p)
    \/ \E pk \in PkInputs : BlogDetailView_get(pk)
    \/ \E pk \in PkInputs, p \in OneKeyPayloads : BlogDetailView_patch(pk, p)
    \/ Tick

SpecClock == Init /\ [][NextClock]_vars

(***************************************************************************)
(* 04_authentication_and_authorizations/blog/serializers.py: the           *)
(* validation hooks.  A hook returns the accepted value or raises a        *)
(* ValidationError with a message.                                         *)
(***************************************************************************)
Underscore == "_"

Accepted(value) == [raised |-> FALSE, detail |-> OK, value |-> value]

ValidationError(detail, value) == [raised |-> TRUE, detail |-> detail, value |-> value]

\* Mutant of validate_title: the hook looks for a space instead of '_'.
validate_title_WrongChar(value) ==
    IF Contains(value, Space) THEN ValidationError("illegal char", value)
    ELSE Accepted(value)

\* BlogCustom7Serializer.validate_title
validate_title(value) ==
    IF Contains(value, Underscore) THEN ValidationError("illegal char", value)
    ELSE Accepted(value)

\* demo_func_validator
demo_func_validator(attr) ==
    IF Contains(attr, Underscore) THEN ValidationError("invalid char", attr)
    ELSE Accepted(attr)

\* Mutant of validate: the hook compares nothing.
validate_AcceptsAll(attrs) == Accepted(attrs)

\* attrs[key] of a key the dict does not hold: a KeyError, which is not a
\* ValidationError and leaves is_valid().
KeyError(key, value) == [raised |-> TRUE, detail |-> "KeyError", value |-> value]

\* BlogCustom9Serializer.validate: attrs maps the validated keys to values.
validate(attrs) ==
    IF "title" \notin DOMAIN attrs THEN KeyError("title", attrs)
    ELSE IF "content" \notin DOMAIN attrs THEN KeyError("content", attrs)
    ELSE IF attrs["title"] = attrs["content"]
    THEN ValidationError("Title and content cannot have same value", attrs)
    ELSE Accepted(attrs)

\* The attrs run_validation hands to validate: the converted value of every
\* key of the data (of these, validate reads title and content).
Attrs(p) ==
    [f \in p.keys \cap {"title", "content"} |-> ToInternalValue(p, f)]

\* BlogCustom7Serializer.errors: validate_title runs on the title the field
\* has accepted.
Custom7Errors(p) ==
    LET base == BlogSerializerErrors(p, FALSE, NoInstance)
    IN  [base EXCEPT !.title =
            IF base.title # OK \/ "title" \notin p.keys THEN base.title
            ELSE validate_title(ToInternalValue(p, "title")).detail]

\* BlogCustom8Serializer.errors: extra_kwargs gives title and content the
\* validator list [demo_func_validator], which stands in place of the list
\* built from the model (the UniqueValidator of title).
Custom8CharError(p, f) ==
    IF CharError(p, f, FALSE) # OK THEN CharError(p, f, FALSE)
    ELSE IF f = "title" /\ Len(Strip(p.title)) > TitleMaxLength THEN "max_length"
    ELSE demo_func_validator(ToInternalValue(p, f)).detail

Custom8Errors(p) ==
    [BlogSerializerErrors(p, FALSE, NoInstance) EXCEPT
        !.title = Custom8CharError(p, "title"),
        !.content = Custom8CharError(p, "content")]

\* The row a serializer creates from the attributes its hooks return.
CreateFrom(p, title) == [SerializerCreate(p) EXCEPT !.title = title]

\* The unique index of Blog.title refuses a second row with a stored title.
TitleIntegrityError(title) == \E i \in StoredIds : blogs[i].title = title

\* serializer = S(data=p); if serializer.is_valid(): serializer.save()
\* errs are the field errors, obj the outcome of the object-level hook (run
\* only when no field failed), title the title the hooks return.
UseSerializer(op, p, errs, obj, title) ==
    IF ~IsValid(errs)
    THEN /\ last' = Response(op, 0, p, 0, "", errs, NoRepr, TRUE, FALSE)
         /\ UNCHANGED <<blogs, nextId>>
    ELSE IF obj.raised
    THEN /\ last' = Response(op, 0, p, 0, obj.detail, errs, NoRepr, TRUE, FALSE)
         /\ UNCHANGED <<blogs, nextId>>
    ELSE IF TitleIntegrityError(title)
    THEN /\ last' = Response(op, 0, p, 0, "IntegrityError", errs, NoRepr, TRUE, TRUE)
         /\ UNCHANGED <<blogs, nextId>>
    ELSE /\ nextId <= MaxBlogs
         /\ blogs' = blogs @@ (nextId :> CreateFrom(p, title))
         /\ nextId' = nextId + 1
         /\ last' = Response(op, 0, p, 0, "", errs,
                             ToRepresentation(nextId, CreateFrom(p, title)),
                             TRUE, TRUE)

BlogCustom7Serializer_save(p) ==
    /\ UseSerializer("custom7", p, Custom7Errors(p), Accepted(p),
                     validate_title(ToInternalValue(p, "title")).value)
    /\ UNCHANGED <<relVars, now, cmd, authVars, req>>

BlogCustom8Serializer_save(p) ==
    /\ UseSerializer("custom8", p, Custom8Errors(p), Accepted(p),
                     ToInternalValue(p, "title"))
    /\ UNCHANGED <<relVars, now, cmd, authVars, req>>

BlogCustom9Serializer_save(p) ==
    /\ UseSerializer("custom9", p, BlogSerializerErrors(p, FALSE, NoInstance),
                     validate(Attrs(p)),
                     ToInternalValue(p, "title"))
    /\ UNCHANGED <<relVars, now, cmd, authVars, req>>

ValidationTitles == {<<"a">>, <<"a", "_">>, <<"_", " ">>, <<"b">>}
ValidationContents == {<<"a">>, <<"a", "_">>}

ValidationPayloads ==
    {Payload(Fields, t, c, 1, <<1>>, ci) :
        t \in ValidationTitles, c \in ValidationContents, ci \in CoverInputs}
    \cup {Payload(Fields, <<"b">>, <<"b">>, 2, <<1>>, 1),
          Payload(Fields \ {"title"}, <<>>, <<"a">>, 1, <<1>>, 1)}

NextValidation ==
    \/ \E p \in ValidationPayloads : BlogGetCreateView_post(p)
    \/ \E p \in ValidationPayloads : BlogCustom7Serializer_save(p)
    \/ \E p \in ValidationPayloads : BlogCustom8Serializer_save(p)
    \/ \E p \in ValidationPayloads : BlogCustom9Serializer_save(p)

\* The create view and the serializers with validation hooks, used directly.
SpecValidation == Init /\ [][NextValidation]_vars

(***************************************************************************)
(* BlogCustom9Serializer in partial mode, as BlogDetailView.patch builds   *)
(* its serializer: S(blog, data=request.data, partial=True), is_valid(),   *)
(* save().  A key absent from the data is skipped by the fields and is     *)
(* absent from attrs.                                                      *)
(***************************************************************************)
BlogCustom9Serializer_update(pk, p) ==
    /\ pk \in StoredIds
    /\ LET errs == BlogSerializerErrors(p, TRUE, pk)
           obj == validate(Attrs(p))
           b == SerializerUpdate(blogs[pk], p)
       IN  IF ~IsValid(errs)
           THEN /\ last' = Response("custom9_partial", pk, p, 0, "", errs, NoRepr,
                                    TRUE, FALSE)
                /\ UNCHANGED blogs
           ELSE IF obj.raised
           THEN /\ last' = Response("custom9_partial", pk, p, 0, obj.detail, errs,
                                    NoRepr, TRUE, FALSE)
                /\ UNCHANGED blogs
           ELSE /\ blogs' = [blogs EXCEPT ![pk] = b]
                /\ last' = Response("custom9_partial", pk, p, 0, "", errs,
                                    ToRepresentation(pk, b), TRUE, TRUE)
    /\ UNCHANGED <<relVars, nextId, now, cmd, authVars, req>>

PartialCreatePayloads ==
    {Payload(Fields, <<"a">>, <<"b">>, 1, <<1>>, 1),
     Payload(Fields, <<"b">>, <<"b">>, 1, <<1>>, 2),
     Payload(Fields, <<"b", "_">>, <<" ">>, 1, <<1>>, 2)}

PartialPayloads ==
    {Payload({"title"}, t, <<>>, 0, <<>>, 0) : t \in {<<"a">>, <<"b">>, <<" ">>}}
    \cup {Payload({"content"}, <<>>, c, 0, <<>>, 0) : c \in {<<"a">>, <<"b">>}}
    \cup {Payload({"title", "content"}, t, c, 0, <<>>, 0) :
             t \in {<<"a">>, <<"c">>}, c \in {<<"a">>, <<" ">>}}
    \cup {Payload({"tags"}, <<>>, <<>>, 0, <<2>>, 0), EmptyPayload}

NextPartial ==
    \/ \E p \in PartialCreatePayloads : BlogGetCreateView_post(p)
    \/ \E p \in PartialCreatePayloads : BlogCustom9Serializer_save(p)
    \/ \E pk \in PkInputs, p \in PartialPayloads : BlogCustom9Serializer_update(pk, p)

SpecPartial == Init /\ [][NextPartial]_vars

(***************************************************************************)
(* The relations and unique columns declared in blog/models.py and         *)
(* author/models.py, exercised through the ORM: rows of Author, Tags and   *)
(* CoverImage are created and deleted, Blogs are written through the REST  *)
(* views and removed through BlogDestroyView.                              *)
(***************************************************************************)
MaxRelRows == 2

OrmResult(op, pk, error) ==
    Response(op, pk, EmptyPayload, 0, error, NoErrors, NoRepr, FALSE, error = "")

\* Author.email unique=True
EmailIntegrityError(email) == \E a \in DOMAIN authors : authors[a].email = email

\* Tags.name unique=True
NameIntegrityError(name) == \E t \in DOMAIN tagsTbl : tagsTbl[t].name = name

\* Author.objects.create(email=email)
Author_create(email) ==
    /\ IF EmailIntegrityError(email)
       THEN /\ last' = OrmResult("create_author", 0, "IntegrityError")
            /\ UNCHANGED <<authors, nextRel>>
       ELSE /\ nextRel.author <= MaxRelRows
            /\ authors' = authors @@ (nextRel.author :> [email |-> email])
            /\ nextRel' = [nextRel EXCEPT !.author = @ + 1]
            /\ last' = OrmResult("create_author", nextRel.author, "")
    /\ UNCHANGED <<blogs, tagsTbl, covers, nextId, now, cmd, authVars, req>>

\* Tags.objects.create(name=name)
Tags_create(name) ==
    /\ IF NameIntegrityError(name)
       THEN /\ last' = OrmResult("create_tag", 0, "IntegrityError")
            /\ UNCHANGED <<tagsTbl, nextRel>>
       ELSE /\ nextRel.tag <= MaxRelRows
            /\ tagsTbl' = tagsTbl @@ (nextRel.tag :> [name |-> name])
            /\ nextRel' = [nextRel EXCEPT !.tag = @ + 1]
            /\ last' = OrmResult("create_tag", nextRel.tag, "")
    /\ UNCHANGED <<blogs, authors, covers, nextId, now, cmd, authVars, req>>

\* CoverImage.objects.create(image_link=...)
CoverImage_create ==
    /\ nextRel.cover <= MaxRelRows
    /\ covers' = covers \cup {nextRel.cover}
    /\ nextRel' = [nextRel EXCEPT !.cover = @ + 1]
    /\ last' = OrmResult("create_cover", nextRel.cover, "")
    /\ UNCHANGED <<blogs, authors, tagsTbl, nextId, now, cmd, authVars, req>>

\* The Blogs whose blog_cover_image is c.
ReferencingBlogs(c) == {i \in StoredIds : blogs[i].blog_cover_image = c}

\* Mutant of Protected: the relation does not protect the CoverImage.
Protected_Never(c) == FALSE

\* blog_cover_image on_delete=models.PROTECT
Protected(c) == ReferencingBlogs(c) # {}

\* CoverImage.objects.get(pk=c).delete()
CoverImage_delete(c) ==
    /\ c \in covers
    /\ IF Protected(c)
       THEN /\ last' = OrmResult("delete_cover", c, "ProtectedError")
            /\ UNCHANGED covers
       ELSE /\ covers' = covers \ {c}
            /\ last' = OrmResult("delete_cover", c, "")
    /\ UNCHANGED <<blogs, authors, tagsTbl, nextId, nextRel, now, cmd, authVars, req>>

Restrict(f, S) == [x \in S |-> f[x]]

\* Mutant of Author_delete: the author's Blogs are left behind.
Author_delete_NoCascade(a) ==
    /\ a \in DOMAIN authors
    /\ authors' = Restrict(authors, DOMAIN authors \ {a})
    /\ blogs' = blogs
    /\ last' = OrmResult("delete_author", a, "")
    /\ UNCHANGED <<tagsTbl, covers, nextId, nextRel, now, cmd, authVars, req>>

\* Author.objects.get(pk=a).delete(): author on_delete=models.CASCADE
Author_delete(a) ==
    /\ a \in DOMAIN authors
    /\ authors' = Restrict(authors, DOMAIN authors \ {a})
    /\ blogs' = Restrict(blogs, {i \in StoredIds : blogs[i].author # a})
    /\ last' = OrmResult("delete_author", a, "")
    /\ UNCHANGED <<tagsTbl, covers, nextId, nextRel, now, cmd, authVars, req>>

\* BlogDestroyView (DestroyAPIView): DELETE api/blogs/<pk>/delete/
BlogDestroyView_delete(pk) ==
    /\ IF DoesNotExist(pk)
       THEN /\ last' = Response("delete", pk, EmptyPayload, 404, "Not found.",
                                NoErrors, NoRepr, FALSE, FALSE)
            /\ UNCHANGED blogs
       ELSE /\ blogs' = Restrict(blogs, StoredIds \ {pk})
            /\ last' = Response("delete", pk, EmptyPayload, 204, "", NoErrors,
                                NoRepr, FALSE, FALSE)
    /\ UNCHANGED <<relVars, nextId, now, cmd, authVars, req>>

EmailInputs == {"x@example.com", "y@example.com"}
NameInputs == {"django", "drf"}

\* Blogs of author 1 with cover 1 and of author 2 with cover 2.
OrmPostPayloads ==
    {Payload(Fields, t, <<"a">>, a, <<1>>, a) : t \in {<<"a">>, <<"b">>}, a \in {1, 2}}

OrmPutPayloads == {Payload(Fields, <<" ", "b">>, <<"b">>, 1, <<1>>, 1)}

OrmPatchPayloads ==
    {Payload({"title"}, t, <<>>, 0, <<>>, 0) : t \in {<<"a">>, <<"b">>}}
    \cup {Payload({"blog_cover_image"}, <<>>, <<>>, 0, <<>>, 2)}

InitOrm ==
    /\ blogs = <<>>
    /\ authors = (1 :> [email |-> "x@example.com"])
    /\ tagsTbl = (1 :> [name |-> "django"])
    /\ covers = {1}
    /\ nextId = 1
    /\ nextRel = [author |-> 2, tag |-> 2, cover |-> 2]
    /\ now = 0
    /\ last = NoRequest
    /\ cmd = CmdIdle
    /\ InitAuth
    /\ InitDemo

NextOrm ==
    \/ \E e \in EmailInputs : Author_create(e)
    \/ \E n \in NameInputs : Tags_create(n)
    \/ CoverImage_create
    \/ \E c \in 1..MaxRelRows : CoverImage_delete(c)
    \/ \E a \in 1..MaxRelRows : Author_delete(a)
    \/ \E pk \in PkInputs : BlogDestroyView_delete(pk)
    \/ \E p \in OrmPostPayloads : BlogGetCreateView_post(p)
    \/ \E pk \in PkInputs, p \in OrmPutPayloads : BlogDetailView_put(pk, p)
    \/ \E pk \in PkInputs, p \in OrmPatchPayloads : BlogDetailView_patch(pk, p)

SpecOrm == InitOrm /\ [][NextOrm]_vars

(***************************************************************************)
(* 03_django_admin/blog/management/commands/blog_count.py.  cmd holds one  *)
(* invocation of the command: its arguments, the lines written to stdout,  *)
(* the exception raised inside the try block (if any), whether an          *)
(* exception left handle, and total_blogs.  A date argument is a string;   *)
(* an absent argument (None) and the empty string are both "".  fault is   *)
(* the database failing at one of the places the queryset is evaluated.    *)
(***************************************************************************)
TicksPerDay == 2

\* The day numbers of the date strings that '%Y-%m-%d' parses.
ParsedDay == ("2024-01-01" :> 0 @@ "2024-01-02" :> 1)

DateInputs == {"", "2024-01-01", "2024-01-02", "2024-13-01"}

\* timezone.datetime.strptime(s, '%Y-%m-%d'): midnight of the day, or ValueError.
Strptime(s) ==
    IF s \in DOMAIN ParsedDay
    THEN [raised |-> "", t |-> ParsedDay[s] * TicksPerDay]
    ELSE [raised |-> "ValueError", t |-> 0]

\* timezone.timedelta(days=1)
OneDay == TicksPerDay

Letters == {"a", "b"}

\* str.isalpha() of one character
IsAlpha(ch) == ch \in Letters

RECURSIVE CountAlpha(_)
CountAlpha(s) ==
    IF s = <<>> THEN 0
    ELSE (IF IsAlpha(Head(s)) THEN 1 ELSE 0) + CountAlpha(Tail(s))

\* Command.get_letter_count: sum(1 for c in (blog.content or '') if c.isalpha())
get_letter_count(blog) == CountAlpha(blog.content)

Line(kind, n) == [kind |-> kind, n |-> n]

\* Mutant of ExceptClause: `except Exception` comes first.
ExceptClause_GenericFirst(raised) == "error_other"

\* The except clauses of handle, in order.
ExceptClause(raised) ==
    IF raised = "ValueError" THEN "error_date"
    ELSE IF raised = "ObjectDoesNotExist" THEN "error_db"
    ELSE "error_other"

\* Mutant of LetterFilter: a blog with exactly min_letters letters is left out.
LetterFilter_MoreThan(q, min_letters) ==
    IF min_letters > 0
    THEN {i \in q : get_letter_count(blogs[i]) > min_letters}
    ELSE q

\* queryset.filter(id__in=[... get_letter_count(blog) >= min_letters])
LetterFilter(q, min_letters) ==
    IF min_letters > 0
    THEN {i \in q : get_letter_count(blogs[i]) >= min_letters}
    ELSE q

\* queryset.filter(created_at__gte=strptime(start_date))
StartFilter(q, start_date) ==
    IF start_date # ""
    THEN {i \in q : blogs[i].created_at >= Strptime(start_date).t}
    ELSE q

\* queryset.filter(created_at__lte=strptime(end_date) + timedelta(days=1))
EndFilter(q, end_date) ==
    IF end_date # ""
    THEN {i \in q : blogs[i].created_at <= Strptime(end_date).t + OneDay}
    ELSE q

\* The exception the try block raises first, "" when it raises none.
Raised(args) ==
    LET q == EndFilter(StartFilter(LetterFilter(StoredIds, args.min_letters),
                                   args.start_date), args.end_date)
    IN  IF args.min_letters > 0 /\ args.fault.at = "letters" THEN args.fault.kind
        ELSE IF args.start_date # "" /\ Strptime(args.start_date).raised # ""
        THEN Strptime(args.start_date).raised
        ELSE IF args.end_date # "" /\ Strptime(args.end_date).raised # ""
        THEN Strptime(args.end_date).raised
        ELSE IF args.fault.at = "count" THEN args.fault.kind
        ELSE IF q # {} /\ args.verbose /\ args.fault.at = "iterate"
        THEN args.fault.kind
        ELSE ""

\* The lines the try block writes before it ends or raises.
Printed(args) ==
    LET q == EndFilter(StartFilter(LetterFilter(StoredIds, args.min_letters),
                                   args.start_date), args.end_date)
        ids == SortedSeq(q)
        r == Raised(args)
    IN  IF r # "" /\ ~(args.fault.at = "iterate" /\ r = args.fault.kind) THEN <<>>
        ELSE IF q = {} THEN <<Line("warning", 0)>>
        ELSE IF ~args.verbose THEN <<Line("count", Cardinality(q))>>
        ELSE IF r # "" THEN <<Line("header", 0)>>
        ELSE <<Line("header", 0)>>
             \o [k \in 1..Len(ids) |-> Line("detail", ids[k])]
             \o <<Line("count", Cardinality(q))>>

\* Command.handle(**kwargs)
BlogCount_handle(args) ==
    /\ cmd.pc = "idle"
    /\ LET r == Raised(args)
           q == EndFilter(StartFilter(LetterFilter(StoredIds, args.min_letters),
                                      args.start_date), args.end_date)
       IN  cmd' = [pc |-> "done", args |-> args,
                   out |-> IF r = "" THEN Printed(args)
                           ELSE Printed(args) \o <<Line(ExceptClause(r), 0)>>,
                   raised |-> r, escaped |-> FALSE,
                   total |-> IF r = "" \/ (args.fault.at = "iterate" /\ r = args.fault.kind)
                             THEN Cardinality(q) ELSE 0]
    /\ UNCHANGED <<blogs, relVars, nextId, now, last, authVars, req>>

\* The process of an invocation ends; the next invocation starts afresh.
BlogCount_exit ==
    /\ cmd.pc = "done"
    /\ cmd' = CmdIdle
    /\ UNCHANGED <<blogs, relVars, nextId, now, last, authVars, req>>

FaultInputs ==
    {NoFault}
    \cup [at : {"letters", "count", "iterate"},
          kind : {"ObjectDoesNotExist", "Exception"}]

ArgInputs ==
    [min_letters : {0, 1, 2}, verbose : BOOLEAN, start_date : DateInputs,
     end_date : DateInputs, fault : FaultInputs]
    \cup [min_letters : {-1}, verbose : {FALSE}, start_date : DateInputs,
          end_date : DateInputs, fault : {NoFault}]

\* The stored Blogs of the command's runs: any creation times up to the
\* midnight after the last day; contents with no, one and two letters
\* (Blog.content is not nullable: the empty string is its only falsy value),
\* the first blog having at most one letter and the second at least one.
CountIds == {1, 2}
CountTimes == 0..(2 * TicksPerDay)
CountContents == {<<>>, <<"a", "_">>, <<"a", " ", "b">>}

CountBlog(i, t, c) ==
    [title |-> [k \in 1..i |-> "a"], content |-> c, author |-> 1, tags |-> {1},
     blog_cover_image |-> i, created_at |-> t, updated_at |-> t]

CountStores ==
    UNION {{[i \in 1..n |-> CountBlog(i, t[i], c[i])] :
               t \in [1..n -> CountTimes],
               c \in {f \in [1..n -> CountContents] :
                        \A i \in 1..n :
                            CountAlpha(f[i]) \in (IF i = 1 THEN {0, 1} ELSE {1, 2})}} :
           n \in {0} \cup CountIds}

InitCount ==
    /\ blogs \in CountStores
    /\ authors = (1 :> [email |-> "x@example.com"])
    /\ tagsTbl = (1 :> [name |-> "django"])
    /\ covers = CountIds
    /\ nextId = Cardinality(StoredIds) + 1
    /\ nextRel = [author |-> 2, tag |-> 2, cover |-> Cardinality(CountIds) + 1]
    /\ now = 2 * TicksPerDay
    /\ last = NoRequest
    /\ cmd = CmdIdle
    /\ InitAuth
    /\ InitDemo

NextCount ==
    \/ \E args \in ArgInputs : BlogCount_handle(args)
    \/ BlogCount_exit

SpecCount == InitCount /\ [][NextCount]_vars

(***************************************************************************)
(* 04_authentication_and_authorizations/custom_user/models.py.  users is   *)
(* the table of CustomUser rows in the order they were saved; mgr records  *)
(* the latest call of CustomUserManager: its arguments, the exception it   *)
(* raised ("" for none) and the user it returned.  extra_fields is the     *)
(* dict of keyword arguments: a function from the keys given to values.    *)
(* A flag value is "True", "False", "1" (the integer 1) or None.           *)
(***************************************************************************)
MaxUsers == 2

\* dict.setdefault(key, value)
setdefault(d, key, value) == IF key \in DOMAIN d THEN d ELSE d @@ (key :> value)

\* dict.get(key)
get(d, key) == IF key \in DOMAIN d THEN d[key] ELSE None

\* not phone_no
Falsy(x) == x \in {"", None}

\* AbstractBaseUser.set_password: make_password(None) is an unusable password.
make_password(password) ==
    IF password = None THEN <<"!">> ELSE <<"pbkdf2_sha256", password>>

\* self.model(phone_no=phone_no, **extra_fields); is_active defaults to True.
Model(phone_no, extra_fields) ==
    [phone_no |-> phone_no, password |-> <<>>,
     is_staff |-> get(setdefault(extra_fields, "is_staff", "False"), "is_staff"),
     is_superuser |->
        get(setdefault(extra_fields, "is_superuser", "False"), "is_superuser"),
     is_active |-> get(setdefault(extra_fields, "is_active", "True"), "is_active")]

\* phone_no unique=True
PhoneIntegrityError(phone_no) ==
    \E k \in 1..Len(users) : users[k].phone_no = phone_no

\* The outcome of a manager call: the exception raised and the user returned.
Outcome(raised, user) == [raised |-> raised, user |-> user]

\* CustomUserManager.create_user
create_user(phone_no, password, extra_fields) ==
    IF Falsy(phone_no) THEN Outcome("ValueError", NoUser)
    ELSE LET e1 == setdefault(extra_fields, "is_staff", "False")
             e2 == setdefault(e1, "is_superuser", "False")
             user == [Model(phone_no, e2) EXCEPT !.password = make_password(password)]
         IN  IF PhoneIntegrityError(phone_no) THEN Outcome("IntegrityError", NoUser)
             ELSE Outcome("", user)

\* Mutant of SuperuserFlagsError: only is_staff is checked.
SuperuserFlagsError_StaffOnly(extra_fields) ==
    get(extra_fields, "is_staff") # "True"

\* create_superuser: is_staff and is_superuser must each be True itself.
SuperuserFlagsError(extra_fields) ==
    \/ get(extra_fields, "is_staff") # "True"
    \/ get(extra_fields, "is_superuser") # "True"

\* CustomUserManager.create_superuser
create_superuser(phone_no, password, extra_fields) ==
    LET e1 == setdefault(extra_fields, "is_staff", "True")
        e2 == setdefault(e1, "is_superuser", "True")
        e3 == setdefault(e2, "is_active", "True")
    IN  IF SuperuserFlagsError(e3) THEN Outcome("ValueError", NoUser)
        ELSE create_user(phone_no, password, e3)

\* A call of the manager: user.save() appends the row.
ManagerCall(op, phone_no, password, extra_fields, o) ==
    /\ o.raised = "" => Len(users) < MaxUsers
    /\ users' = IF o.raised = "" THEN Append(users, o.user) ELSE users
    /\ mgr' = [op |-> op, phone_no |-> phone_no, password |-> password,
               extra_fields |-> extra_fields, raised |-> o.raised, user |-> o.user]

CustomUserManager_create_user(phone_no, password, extra_fields) ==
    /\ ManagerCall("create_user", phone_no, password, extra_fields,
                   create_user(phone_no, password, extra_fields))
    /\ UNCHANGED <<blogs, relVars, nextId, now, last, cmd, req>>

CustomUserManager_create_superuser(phone_no, password, extra_fields) ==
    /\ ManagerCall("create_superuser", phone_no, password, extra_fields,
                   create_superuser(phone_no, password, extra_fields))
    /\ UNCHANGED <<blogs, relVars, nextId, now, last, cmd, req>>

PhoneInputs == {"", None, "111", "222"}

\* The dicts over a set of keys with values in V.
Dicts(K, V) == UNION {[D -> V] : D \in SUBSET K}

\* create_user is called with flags that are booleans, with a password, and
\* once without a password.
UserCallInputs ==
    [phone_no : PhoneInputs, password : {"pw"},
     extra_fields : Dicts({"is_staff", "is_superuser"}, {"True", "False"})]
    \cup {[phone_no |-> "111", password |-> None, extra_fields |-> <<>>]}

\* create_superuser is called with any flag values.
SuperuserCallInputs ==
    [phone_no : PhoneInputs, password : {"pw"},
     extra_fields : Dicts({"is_staff", "is_superuser"}, {"True", "False", "1", None})]

NextUser ==
    \/ \E c \in UserCallInputs :
            CustomUserManager_create_user(c.phone_no, c.password, c.extra_fields)
    \/ \E c \in SuperuserCallInputs :
            CustomUserManager_create_superuser(c.phone_no, c.password, c.extra_fields)

SpecUser == Init /\ [][NextUser]_vars

(***************************************************************************)
(* 01_django_with_drf/demo_app: the versioned views.  req is one request   *)
(* on its way through APIView.dispatch: the view the URL routes to, the    *)
(* HTTP method, the version captured from the path (None when the path     *)
(* has none), where dispatch stands (pc), the status and message of the    *)
(* response, and whether a handler of the view has run.  A message is the  *)
(* sequence of the parts of its f-string.                                  *)
(***************************************************************************)
Views == {"DemoView", "AnotherView"}

\* versioning_class of each view
versioning_class(view) ==
    IF view = "DemoView" THEN "DemoViewVersion" ELSE "AnotherViewVersion"

\* Mutant of allowed_versions: AnotherViewVersion allows v3 as well.
allowed_versions_AnotherAllowsV3(class) ==
    {"v1", "v2", "v3"}

\* allowed_versions of each versioning class
allowed_versions(class) ==
    IF class = "DemoViewVersion" THEN {"v1", "v2", "v3"}
    ELSE IF class = "AnotherViewVersion" THEN {"v1", "v2"}
    ELSE {"v1"}

\* BaseVersioning.default_version: the DEFAULT_VERSION setting, unset.
default_version == None

\* BaseVersioning.is_allowed_version
is_allowed_version(class, version) ==
    IF allowed_versions(class) = {} THEN TRUE
    ELSE \/ (version # None /\ version = default_version)
         \/ version \in allowed_versions(class)

\* URLPathVersioning.determine_version: kwargs.get(version_param, default)
PathVersion(version) == IF version = None THEN default_version ELSE version

\* A response of status and message; handled says a handler has run.
Respond(status, message, handled) ==
    [req EXCEPT !.pc = "responded", !.status = status, !.message = message,
                !.handled = handled]

\* APIView.dispatch: a request arrives at the view its URL routes to.
APIView_dispatch(view, method, version) ==
    /\ req.pc \in {"idle", "responded"}
    /\ req' = [NoExchange EXCEPT !.pc = "initial", !.view = view,
                                 !.method = method, !.version = version]
    /\ UNCHANGED <<blogs, relVars, nextId, now, last, cmd, authVars>>

\* APIView.initial: determine_version raises NotFound for a version that is
\* not allowed; otherwise request.version is set and the handler is looked up.
APIView_initial ==
    /\ req.pc = "initial"
    /\ req' = IF is_allowed_version(versioning_class(req.view), PathVersion(req.version))
              THEN [req EXCEPT !.pc = "handler", !.version = PathVersion(req.version)]
              ELSE Respond(404, <<"Invalid version in URL path.">>, FALSE)
    /\ UNCHANGED <<blogs, relVars, nextId, now, last, cmd, authVars>>

\* A method the view has no handler for: http_method_not_allowed.
APIView_http_method_not_allowed ==
    /\ req.pc = "handler"
    /\ req.method # "GET"
    /\ req' = Respond(405, <<"Method not allowed.">>, FALSE)
    /\ UNCHANGED <<blogs, relVars, nextId, now, last, cmd, authVars>>

\* DemoView.get
DemoView_get ==
    /\ req.pc = "handler"
    /\ req.view = "DemoView"
    /\ req.method = "GET"
    /\ req' = Respond(200, <<"You have hit ", req.version, " version of the Demo-api">>,
                      TRUE)
    /\ UNCHANGED <<blogs, relVars, nextId, now, last, cmd, authVars>>

\* AnotherView.get: with neither branch taken the method returns None, which
\* dispatch refuses with an AssertionError (a 500).
AnotherView_get ==
    /\ req.pc = "handler"
    /\ req.view = "AnotherView"
    /\ req.method = "GET"
    /\ req' = IF req.version = "v1" THEN Respond(200, <<"V1 Logic goes here">>, TRUE)
              ELSE IF req.version = "v2"
              THEN Respond(200, <<"V2 Logic goes here">>, TRUE)
              ELSE Respond(500, <<"AssertionError">>, TRUE)
    /\ UNCHANGED <<blogs, relVars, nextId, now, last, cmd, authVars>>

\* The versions a path carries, None for a path without one.
VersionInputs == {None, "v0", "v1", "v2", "v3", "v4"}

MethodInputs == {"GET", "POST", "PUT", "DELETE"}

NextDemo ==
    \/ \E view \in Views, method \in MethodInputs, version \in VersionInputs :
            APIView_dispatch(view, method, version)
    \/ APIView_initial
    \/ APIView_http_method_not_allowed
    \/ DemoView_get
    \/ AnotherView_get

SpecDemo == Init /\ [][NextDemo]_vars

(***************************************************************************)
(* The request a response answers, read back from last.                    *)
(***************************************************************************)
WriteOps == {"post", "custom_post", "put", "patch"}
DetailOps == {"get", "put", "patch"}

\* The serializer.errors a write request has in the current state.
RequestErrors(r) ==
    BlogSerializerErrors(r.data, r.op = "patch",
                         IF r.op \in {"put", "patch"} THEN r.pk ELSE NoInstance)

\* The write request addresses a stored record, or creates one.
Addressable(r) == r.op \in {"put", "patch"} => ~DoesNotExist(r.pk)

\* C1: a write request (BlogGetCreateView.post, BlogGetUpdateView.post,
\* BlogDetailView.put, BlogDetailView.patch) whose data fails validation is
\* answered 400 with the validation errors and leaves every stored Blog and
\* the key counter as they were; save() is called only after is_valid() has
\* run and found no error.
C1_InvalidWriteChangesNothing ==
    [][/\ (/\ last'.op \in WriteOps
           /\ Addressable(last')
           /\ ~IsValid(RequestErrors(last')))
          => /\ last'.status = 400
             /\ last'.errors = RequestErrors(last')
             /\ last'.errors # NoErrors
             /\ ~last'.saved
             /\ blogs' = blogs
             /\ nextId' = nextId
       /\ last'.saved => (last'.validated /\ IsValid(RequestErrors(last')))]_vars

C1_Witness ==
    /\ last.op \in {"post", "put", "patch"}
    /\ last.status = 400
    /\ last.errors.title = "unique"
    /\ StoredIds # {}

\* C2 as claimed: after a 201 from BlogGetCreateView.post, BlogDetailView.get
\* on the returned id answers 200 with title, content, author, tags and
\* blog_cover_image equal to the submitted values.
C2_RoundTripAsSubmitted ==
    (last.op = "post" /\ last.status = 201)
    => LET r == DetailGetResponse(last.repr.id)
       IN  /\ r.status = 200
           /\ r.repr.title = last.data.title
           /\ r.repr.content = last.data.content
           /\ r.repr.author = last.data.author
           /\ r.repr.tags = last.data.tags
           /\ r.repr.blog_cover_image = last.data.blog_cover_image

\* C2 as amended: after a 201 from BlogGetCreateView.post, BlogDetailView.get
\* on the returned id answers 200; its title and content are the submitted
\* ones with leading and trailing whitespace stripped, its author and
\* blog_cover_image are the submitted keys, and its tags are the submitted
\* keys as a set (each once, whatever the submitted order and repetition).
C2_RoundTripNormalised ==
    (last.op = "post" /\ last.status = 201)
    => LET r == DetailGetResponse(last.repr.id)
       IN  /\ r.status = 200
           /\ r.repr.id = last.repr.id
           /\ r.repr.title = Strip(last.data.title)
           /\ r.repr.content = Strip(last.data.content)
           /\ r.repr.author = last.data.author
           /\ Range(r.repr.tags) = Range(last.data.tags)
           /\ Len(r.repr.tags) = Cardinality(Range(last.data.tags))
           /\ r.repr.blog_cover_image = last.data.blog_cover_image

C2_Witness ==
    /\ last.op = "post"
    /\ last.status = 201
    /\ last.data.title # Strip(last.data.title)
    /\ last.data.tags # SortedSeq(Range(last.data.tags))

\* C3: BlogDetailView.get, put and patch on a pk that matches no stored Blog
\* answer 404 with the body {"error": "Blog not found"}; neither is_valid()
\* nor save() is called and the stored records are unchanged.
C3_UnknownPkIs404 ==
    [][(last'.op \in DetailOps /\ DoesNotExist(last'.pk))
       => /\ last'.status = 404
          /\ last'.error = "Blog not found"
          /\ ~last'.validated
          /\ ~last'.saved
          /\ blogs' = blogs
          /\ nextId' = nextId]_vars

C3_Witness ==
    /\ last.op = "patch"
    /\ last.status = 404
    /\ last.data.keys # {}
    /\ StoredIds # {}

ModelFields == Fields \cup {"created_at", "updated_at"}

\* A step that is a PATCH answered 200 whose data names exactly one key.
OneKeyPatchStep ==
    /\ last' # last
    /\ last'.op = "patch"
    /\ last'.status = 200
    /\ Cardinality(last'.data.keys) = 1

\* C4 as claimed: a successful PATCH naming exactly one field changes that
\* field only; every other field of the record, updated_at included, and
\* every field of every other record keeps its value.
C4_PatchChangesNamedFieldOnly ==
    [][OneKeyPatchStep
       => /\ DOMAIN blogs' = DOMAIN blogs
          /\ \A i \in StoredIds : \A g \in ModelFields :
                (i # last'.pk \/ g \notin last'.data.keys)
                => blogs'[i][g] = blogs[i][g]]_vars

\* C4 as amended: a successful PATCH naming exactly one field changes that
\* field and updated_at only: updated_at becomes the time of the save
\* (auto_now), every other field of the record and every field of every
\* other record keeps its value, and no record is added or removed.
C4_PatchChangesNamedFieldAndUpdatedAt ==
    [][OneKeyPatchStep
       => /\ DOMAIN blogs' = DOMAIN blogs
          /\ blogs'[last'.pk].updated_at = now
          /\ \A i \in StoredIds : \A g \in ModelFields :
                (i # last'.pk \/ g \notin (last'.data.keys \cup {"updated_at"}))
                => blogs'[i][g] = blogs[i][g]]_vars

C4_Witness ==
    /\ last.op = "patch"
    /\ last.status = 200
    /\ last.data.keys = {"title"}
    /\ Cardinality(StoredIds) = 2
    /\ blogs[last.pk].title = <<"b">>
    /\ blogs[last.pk].content = <<"a">>
    /\ blogs[last.pk].updated_at > blogs[last.pk].created_at

CreateOps == {"post", "custom_post"}

TitleEqualsContent(r) ==
    /\ {"title", "content"} \subseteq r.data.keys
    /\ r.data.title = r.data.content

SameValueError == "Title and content cannot have same value"

\* C5 as claimed: a payload in which title equals content fails with the
\* ValidationError 'Title and content cannot have same value' and persists no
\* Blog, through the HTTP create endpoints as well as through
\* BlogCustom9Serializer used directly.
C5_EqualTitleContentRejectedEverywhere ==
    [][(last' # last /\ last'.op \in CreateOps \cup {"custom9"}
        /\ TitleEqualsContent(last'))
       => /\ blogs' = blogs
          /\ IsValid(BlogSerializerErrors(last'.data, FALSE, NoInstance))
             => last'.error = SameValueError]_vars

\* C5 as amended: BlogCustom9Serializer used directly persists no Blog for a
\* payload in which title equals content: when every field passes field-level
\* validation, validate fails with the ValidationError 'Title and content
\* cannot have same value'; when a field fails, the field errors are
\* reported and validate is not run.  (The HTTP create endpoints use
\* BlogSerializer, which has no such hook.)
C5_Custom9RejectsEqualTitleContent ==
    [][(last' # last /\ last'.op = "custom9" /\ TitleEqualsContent(last'))
       => /\ blogs' = blogs
          /\ nextId' = nextId
          /\ ~last'.saved
          /\ last'.errors = BlogSerializerErrors(last'.data, FALSE, NoInstance)
          /\ IsValid(last'.errors) => last'.error = SameValueError
          /\ ~IsValid(last'.errors) => last'.error = ""]_vars

C5_Witness ==
    /\ last.op = "custom9"
    /\ TitleEqualsContent(last)
    /\ last.error = SameValueError
    /\ ~last.saved
    /\ StoredIds # {}

HookOps == {"custom7", "custom8"}

HookDetail(op) == IF op = "custom7" THEN "illegal char" ELSE "invalid char"

\* The errors of the fields before the title hook is consulted.
BuiltInTitleError(r) ==
    IF r.op = "custom7" THEN TitleError(r.data, FALSE, NoInstance)
    ELSE IF CharError(r.data, "title", FALSE) # OK THEN CharError(r.data, "title", FALSE)
    ELSE IF Len(Strip(r.data.title)) > TitleMaxLength THEN "max_length"
    ELSE OK

\* C6: with BlogCustom7Serializer (validate_title) and BlogCustom8Serializer
\* (demo_func_validator), a title containing '_' fails field-level
\* validation with the hook's ValidationError and no Blog is persisted; a
\* title without '_' passes the hook, and when it is saved the stored title
\* is the value the hook was given, unchanged.
C6_UnderscoreTitleRejected ==
    [][(last' # last /\ last'.op \in HookOps /\ "title" \in last'.data.keys)
       => LET value == Strip(last'.data.title)
          IN  /\ Contains(value, Underscore)
                 => /\ last'.errors.title # OK
                    /\ BuiltInTitleError(last') = OK
                       => last'.errors.title = HookDetail(last'.op)
                    /\ ~last'.saved
                    /\ blogs' = blogs
              /\ ~Contains(value, Underscore)
                 => /\ last'.errors.title = BuiltInTitleError(last')
                    /\ (last'.saved /\ last'.error = "")
                       => blogs'[last'.repr.id].title = value
              /\ \A i \in DOMAIN blogs' \ DOMAIN blogs :
                    ~Contains(blogs'[i].title, Underscore)]_vars

C6_Witness ==
    /\ last.op = "custom7"
    /\ Contains(last.data.title, Underscore)
    /\ last.errors.title = "illegal char"
    /\ ~last.saved
    /\ StoredIds # {}

\* C7: deleting a CoverImage that some Blog references (blog_cover_image,
\* on_delete=PROTECT) is refused with ProtectedError and leaves the
\* CoverImage and every Blog stored; a CoverImage leaves the table only in
\* a delete made while no Blog references it.
C7_ReferencedCoverIsProtected ==
    [][/\ (last' # last /\ last'.op = "delete_cover"
           /\ ReferencingBlogs(last'.pk) # {})
          => /\ last'.error = "ProtectedError"
             /\ covers' = covers
             /\ blogs' = blogs
       /\ \A c \in covers \ covers' :
             /\ ReferencingBlogs(c) = {}
             /\ last'.op = "delete_cover" /\ last'.pk = c /\ last'.error = ""
       /\ (last' # last /\ last'.op = "delete_cover"
           /\ ReferencingBlogs(last'.pk) = {})
          => (last'.error = "" /\ covers' = covers \ {last'.pk})]_vars

C7_Witness ==
    /\ last.op = "delete_cover"
    /\ last.error = "ProtectedError"
    /\ last.pk \in covers
    /\ ReferencingBlogs(last.pk) # {}

\* The unique columns hold in the current state.
UniqueColumns ==
    /\ \A i, j \in StoredIds : blogs[i].title = blogs[j].title => i = j
    /\ \A i, j \in DOMAIN tagsTbl : tagsTbl[i].name = tagsTbl[j].name => i = j
    /\ \A i, j \in DOMAIN authors : authors[i].email = authors[j].email => i = j

\* A write that was refused for a duplicate.
RefusedDuplicate(r) ==
    \/ r.op \in WriteOps /\ r.status = 400 /\ r.errors.title = "unique"
    \/ r.op \in {"create_author", "create_tag"} /\ r.error = "IntegrityError"

\* C8: after any sequence of create, PUT and PATCH requests (and of Author
\* and Tags creations) no two stored Blogs share a title, no two Tags a name
\* and no two Authors an email; a write refused for a duplicate changes no
\* stored row.
C8_UniqueColumns ==
    [][/\ UniqueColumns'
       /\ (last' # last /\ RefusedDuplicate(last'))
          => UNCHANGED <<blogs, authors, tagsTbl, covers, nextId, nextRel>>
       /\ (last' # last /\ last'.op \in WriteOps /\ Addressable(last')
           /\ "title" \in last'.data.keys
           /\ \E i \in StoredIds :
                 /\ last'.op \in {"put", "patch"} => i # last'.pk
                 /\ blogs[i].title = Strip(last'.data.title))
          => RefusedDuplicate(last')]_vars

C8_Witness ==
    /\ last.op = "patch"
    /\ last.status = 400
    /\ last.errors.title = "unique"
    /\ Cardinality(StoredIds) = 2
    /\ Cardinality(DOMAIN authors) = 2
    /\ Cardinality(DOMAIN tagsTbl) = 2

\* The stored Blogs with at least min_letters letters (all of them when
\* min_letters <= 0).
WithLetters(min_letters) ==
    {i \in StoredIds : min_letters > 0 => CountAlpha(blogs[i].content) >= min_letters}

BothDatesParse(args) ==
    /\ args.start_date \in DOMAIN ParsedDay
    /\ args.end_date \in DOMAIN ParsedDay

\* C9: a run of blog_count with --start-date S and --end-date E that ends
\* without an error counts exactly the blogs created from the start of day S
\* (inclusive) to the start of the day after E (exclusive).
C9_WindowExcludesNextMidnight ==
    (cmd.pc = "done" /\ cmd.raised = "" /\ BothDatesParse(cmd.args))
    => cmd.total =
         Cardinality({i \in WithLetters(cmd.args.min_letters) :
            /\ blogs[i].created_at >= ParsedDay[cmd.args.start_date] * TicksPerDay
            /\ blogs[i].created_at
                 < (ParsedDay[cmd.args.end_date] + 1) * TicksPerDay})

ErrorKinds == {"error_date", "error_db", "error_other"}

ErrorLines(out) == {k \in 1..Len(out) : out[k].kind \in ErrorKinds}

HasLine(out, kind) == \E k \in 1..Len(out) : out[k].kind = kind

\* A date argument is present and does not parse.
BadDate(args) ==
    \/ args.start_date # "" /\ args.start_date \notin DOMAIN ParsedDay
    \/ args.end_date # "" /\ args.end_date \notin DOMAIN ParsedDay

\* The database fails in the letter filter, before the dates are parsed.
FailsBeforeDates(args) == args.min_letters > 0 /\ args.fault.at = "letters"

\* C10: every invocation of handle ends without an exception leaving it; a
\* date argument that does not parse (the first exception of the run) yields
\* the 'Invalid date format' line and no count line; an ObjectDoesNotExist
\* yields the 'Database error' line; any other exception yields the 'An
\* unexpected error occurred' line; a failed run prints exactly one error
\* line, its last line, and a run without exception prints none.
C10_ErrorsReportedByKind ==
    cmd.pc = "done"
    => /\ ~cmd.escaped
       /\ cmd.raised = "" => ErrorLines(cmd.out) = {}
       /\ cmd.raised # "" => ErrorLines(cmd.out) = {Len(cmd.out)}
       /\ cmd.raised = "ValueError"
          => cmd.out = <<Line("error_date", 0)>>
       /\ cmd.raised = "ObjectDoesNotExist"
          => cmd.out[Len(cmd.out)].kind = "error_db"
       /\ cmd.raised = "Exception"
          => cmd.out[Len(cmd.out)].kind = "error_other"
       /\ cmd.raised # "" => ~HasLine(cmd.out, "count")
       /\ (BadDate(cmd.args) /\ ~FailsBeforeDates(cmd.args))
          => cmd.raised = "ValueError"

C10_Witness ==
    /\ cmd.pc = "done"
    /\ cmd.args.start_date = "2024-01-01"
    /\ cmd.args.end_date = "2024-13-01"
    /\ cmd.args.verbose
    /\ cmd.args.fault.at = "count"
    /\ cmd.out = <<Line("error_date", 0)>>
    /\ StoredIds # {}

\* The positions of the detail lines of an output.
DetailLines(out) == {k \in 1..Len(out) : out[k].kind = "detail"}

\* The blogs that have a detail line in an output.
DetailedBlogs(out) == {out[k].n : k \in DetailLines(out)}

\* C11: every run of blog_count that ends without an error prints the line
\* with the total number of matching blogs, also when no blog matches; with
\* --verbose it prints exactly one detail line for each matching blog, and
\* without --verbose it prints no detail line.
C11_CountLineAlwaysPrinted ==
    (cmd.pc = "done" /\ cmd.raised = "")
    => /\ \E k \in 1..Len(cmd.out) : cmd.out[k] = Line("count", cmd.total)
       /\ Cardinality(DetailLines(cmd.out))
            = (IF cmd.args.verbose THEN cmd.total ELSE 0)
       /\ Cardinality(DetailedBlogs(cmd.out))
            = Cardinality(DetailLines(cmd.out))

Custom9Ops == {"custom9", "custom9_partial"}

\* validate was invoked: it raised, or it returned and save() followed.
ObjectHookRan(r) == r.op \in Custom9Ops /\ (r.error # "" \/ r.saved)

\* C12: BlogCustom9Serializer.validate is invoked only after every field has
\* passed its validation, the attrs it receives hold both title and content,
\* and the only way it fails is the ValidationError of the cross-field
\* constraint; in full mode and in partial mode with title or content absent
\* from the data.
C12_ObjectHookGetsFullAttrs ==
    ObjectHookRan(last)
    => /\ IsValid(last.errors)
       /\ {"title", "content"} \subseteq DOMAIN Attrs(last.data)
       /\ last.error \in {"", SameValueError, "IntegrityError"}

\* The alphabetic characters of a content, by position.
AlphaPositions(content) == {k \in 1..Len(content) : content[k] \in Letters}

\* A blog passes the date filters of a run: created at or after the start
\* date, and at or before the end date plus one day, where they are given.
PassesDateFilters(i, args) ==
    /\ args.start_date # ""
       => blogs[i].created_at >= ParsedDay[args.start_date] * TicksPerDay
    /\ args.end_date # ""
       => blogs[i].created_at <= (ParsedDay[args.end_date] + 1) * TicksPerDay

PassesLetterFilter(i, args) ==
    args.min_letters > 0
    => Cardinality(AlphaPositions(blogs[i].content)) >= args.min_letters

\* C13: a run with --min-letters N that ends without an error counts exactly
\* the blogs whose content has at least N alphabetic characters (an empty
\* content has none) and that pass the date filters; for N <= 0 every blog
\* passes the letter filter; the blogs counted are the same whether the
\* letter filter is applied before, between or after the date filters.
C13_LetterFilterCounts ==
    (cmd.pc = "done" /\ cmd.raised = "")
    => LET a == cmd.args
           N == a.min_letters
           counted == {i \in StoredIds :
                         PassesLetterFilter(i, a) /\ PassesDateFilters(i, a)}
       IN  /\ cmd.total = Cardinality(counted)
           /\ N <= 0 => counted = {i \in StoredIds : PassesDateFilters(i, a)}
           /\ LetterFilter(EndFilter(StartFilter(StoredIds, a.start_date),
                                     a.end_date), N) = counted
           /\ EndFilter(LetterFilter(StartFilter(StoredIds, a.start_date), N),
                        a.end_date) = counted
           /\ StartFilter(EndFilter(LetterFilter(StoredIds, N), a.end_date),
                          a.start_date) = counted

\* A run with N = 1 and a start date: the blog with an empty content is left
\* out by its letters, the other blog is counted.
C13_Witness ==
    /\ cmd.pc = "done"
    /\ cmd.raised = ""
    /\ cmd.args.min_letters = 1
    /\ cmd.args.start_date = "2024-01-02"
    /\ cmd.args.end_date = ""
    /\ StoredIds = {1, 2}
    /\ blogs[1].content = <<>>
    /\ blogs[1].created_at >= TicksPerDay
    /\ blogs[2].content = <<"a", "_">>
    /\ blogs[2].created_at >= TicksPerDay
    /\ cmd.total = 1

\* Every stored Blog references a stored Author and a stored CoverImage, and
\* no CoverImage is referenced by two Blogs.
ReferencesStored ==
    /\ \A i \in StoredIds :
          /\ blogs[i].author \in DOMAIN authors
          /\ blogs[i].blog_cover_image \in covers
    /\ \A i, j \in StoredIds :
          blogs[i].blog_cover_image = blogs[j].blog_cover_image => i = j

\* The step that deletes an Author removes exactly that Author's Blogs and
\* leaves every CoverImage stored.
AuthorDeleteCascades ==
    last'.op = "delete_author"
    => /\ last'.pk \in DOMAIN authors
       /\ last'.pk \notin DOMAIN authors'
       /\ DOMAIN blogs' = {i \in StoredIds : blogs[i].author # last'.pk}
       /\ \A i \in DOMAIN blogs' : blogs'[i] = blogs[i]
       /\ covers' = covers

\* C14: under every sequence of creations and deletions of Authors, Blogs
\* and CoverImages, every stored Blog references a stored Author and a stored
\* CoverImage, no CoverImage is referenced by more than one Blog, and
\* deleting an Author removes all of that Author's Blogs while their
\* CoverImages stay stored.
C14_ReferentialIntegrity ==
    /\ []ReferencesStored
    /\ [][AuthorDeleteCascades]_vars

\* Author 1 has been deleted: the first Blog created is gone, its CoverImage
\* is stored, and the Blog of Author 2 is stored with its own CoverImage.
C14_Witness ==
    /\ last.op = "delete_author"
    /\ last.pk = 1
    /\ StoredIds = {2}
    /\ blogs[2].author = 2
    /\ blogs[2].blog_cover_image = 2
    /\ covers = {1, 2}
    /\ DOMAIN authors = {2}

\* A flag the caller passed with a value other than True.
PassedNotTrue(c, flag) ==
    flag \in DOMAIN c.extra_fields /\ c.extra_fields[flag] # "True"

\* The call of the step saved no user / saved the user it returned.
SavedNothing == users' = users
SavedReturned == users' = Append(users, mgr'.user)

\* C15: every user create_superuser returns has is_staff = True and
\* is_superuser = True; a call of create_superuser that passes is_staff or
\* is_superuser with a value other than True raises ValueError and saves no
\* user; create_user with an empty or missing phone_no raises ValueError and
\* saves no user, and otherwise the user it returns has is_staff and
\* is_superuser False where the caller did not set them.
C15_ManagerFlags ==
    [][LET c == mgr'
       IN  /\ (c.op = "create_superuser" /\ c.raised = "")
              => /\ c.user.is_staff = "True"
                 /\ c.user.is_superuser = "True"
                 /\ SavedReturned
           /\ (c.op = "create_superuser"
               /\ (PassedNotTrue(c, "is_staff") \/ PassedNotTrue(c, "is_superuser")))
              => (c.raised = "ValueError" /\ SavedNothing)
           /\ (c.op = "create_user" /\ c.phone_no \in {"", None})
              => (c.raised = "ValueError" /\ SavedNothing)
           /\ (c.op = "create_user" /\ c.phone_no \notin {"", None})
              => /\ c.raised # "ValueError"
                 /\ c.raised = ""
                    => /\ SavedReturned
                       /\ "is_staff" \notin DOMAIN c.extra_fields
                          => c.user.is_staff = "False"
                       /\ "is_superuser" \notin DOMAIN c.extra_fields
                          => c.user.is_superuser = "False"
           /\ c.raised # "" => SavedNothing
      ]_vars

\* A user created with create_user and no flags, then a superuser created
\* with is_staff passed as True.
C15_Witness ==
    /\ mgr.op = "create_superuser"
    /\ mgr.raised = ""
    /\ DOMAIN mgr.extra_fields = {"is_staff"}
    /\ Len(users) = 2
    /\ users[1].is_staff = "False"
    /\ users[1].is_superuser = "False"
    /\ users[1].password = <<"!">>
    /\ users[2] = mgr.user
    /\ users[2].is_staff = "True"
    /\ users[2].is_superuser = "True"

\* The versions the claim gives each view.
Accepts(view) == IF view = "DemoView" THEN {"v1", "v2", "v3"} ELSE {"v1", "v2"}

\* The message AnotherView gives each of its versions.
AnotherMessage(version) ==
    IF version = "v1" THEN <<"V1 Logic goes here">> ELSE <<"V2 Logic goes here">>

\* C16: DemoView accepts exactly the versions v1, v2 and v3 and AnotherView
\* exactly v1 and v2: a request with any other path version is answered
\* before a handler of the view runs, a request with one of these versions
\* is not refused for its version, and AnotherView.get answers each version
\* it accepts with a Response carrying that version's message.
C16_VersionGating ==
    /\ req.pc = "handler" => req.version \in Accepts(req.view)
    /\ req.handled => req.version \in Accepts(req.view)
    /\ (req.pc = "responded" /\ req.version \notin Accepts(req.view))
       => (req.status = 404 /\ ~req.handled)
    /\ (req.pc = "responded" /\ req.version \in Accepts(req.view))
       => req.status # 404
    /\ (req.pc = "responded" /\ req.view = "AnotherView" /\ req.method = "GET"
        /\ req.version \in Accepts("AnotherView"))
       => /\ req.handled
          /\ req.status = 200
          /\ req.message = AnotherMessage(req.version)

\* AnotherView has answered GET on v2 with the message of v2.
C16_Witness ==
    /\ req.pc = "responded"
    /\ req.view = "AnotherView"
    /\ req.method = "GET"
    /\ req.version = "v2"
    /\ req.handled
    /\ req.status = 200
    /\ req.message = <<"V2 Logic goes here">>
====
